---- MODULE Spec2Model ----
(***************************************************************************)
(* News portal: publication rate limit, post-notification dispatch and     *)
(* the hooks (signals) that submit dispatch jobs.                          *)
(*                                                                         *)
(* The store holds committed rows only.  Request threads, the admin add    *)
(* view (which runs inside a database transaction), the editors and the    *)
(* queue workers are separate processes; every database query of a handler *)
(* that another process can interleave with is a step of its own.          *)
(*                                                                         *)
(* News are created through the admin add view of PostAdmin: NewsCreate    *)
(* passes a `user` argument to PostForm, which does not take one, so that  *)
(* request fails after NewsLimitMixin and before the form is handled.      *)
(* Articles are created through ArticleCreate or the admin.                *)
(***************************************************************************)
EXTENDS Integers, Sequences, FiniteSets, TLC

\* ------------------------------------------------------------------ bounds
MaxPosts == 4        \* post ids 1..MaxPosts can be allocated
MaxCrashes == 1      \* worker crashes
MaxWrites == 1       \* edit / like / dislike requests served
MaxTime == 21        \* the clock stops advancing here
MaxJobs == 3         \* dispatch jobs submitted per post id
MaxOutbox == 2       \* activation mails accepted from the resend view
MaxTokens == 2       \* ActivationToken rows ever inserted
MaxSubIds == 3       \* Subscription rows ever inserted
MaxAcctJobs == 3     \* welcome / activation-success jobs submitted
MaxDays == 8         \* days the clock of the digest specification runs

\* ------------------------------------------------------- program constants
NewsLimit == 3       \* news per day
TZOffset == 3        \* Europe/Moscow is UTC+3
HoursPerDay == 24
DaysPerWeek == 7
ExpirationDays == 7

\* the clock advances in steps of the zone offset; it starts at 18:00 UTC,
\* which is 21:00 local time of day 0
StartTime == HoursPerDay - 2 * TZOffset

NEWS == "NW"
ARTICLE == "AR"
PostTypes == {NEWS, ARTICLE}

Authors == {"a1", "a2"}
Users == {"u1", "u2"}
Categories == {"c1", "c2"}
Requests == {"r1", "r2"}
Workers == {"w1", "w2"}
Execs == Workers \cup Requests
Titles == {"t0", "t1"}
Runners == {"beat", "cmd"}

PostIds == 1..MaxPosts
NoPost == [none |-> TRUE]
NoTxn == [open |-> FALSE]

\* User.email: u2 has no address (blank email)
email == [u \in Users |-> IF u = "u1" THEN "u1@x" ELSE ""]

VARIABLES
  now,        \* timezone.now(), hours since 00:00 UTC of day 0
  posts,      \* committed Post rows: [PostIds -> row or NoPost]
  post_cats,  \* committed PostCategory rows: [PostIds -> SUBSET Categories]
  subs,       \* Subscription rows: set of records
  nextId,     \* next Post primary key
  queue,      \* pending send_immediate_notification_task jobs per post id
  submitted,  \* number of dispatch jobs ever submitted per post id
  committed,  \* post ids whose creating transaction has committed
  txn,        \* the admin add view's open transaction, or NoTxn
  cache,      \* entries of the read cache (FileBasedCache)
  mail,       \* Mailer: messages accepted per <<post, category, user>>
  req,        \* request threads
  ex,         \* dispatch executions (workers and the admin's send action)
  writer,     \* the edit / like / dislike request in flight
  writes,     \* edit / like requests served so far
  crashes,    \* worker crashes so far
  nextSubId,  \* next Subscription primary key
  subreq,     \* subscribe requests in flight (get_or_create)
  dg,         \* executions of send_weekly_digest
  digest_mail,\* Mailer: digests accepted per <<user, category>>
  accounts,   \* auth User rows with their groups and Author profiles
  tokens,     \* ActivationToken rows: set of records
  nextTok,    \* next ActivationToken primary key and random string
  jobs,       \* welcome / activation-success jobs submitted, in order
  areq,       \* activation and registration requests in flight
  outbox,     \* Mailer: activation mails accepted from the resend view
  oplog       \* the last resend request or token sweep, and what it did

digestVars == <<nextSubId, subreq, dg, digest_mail>>

acctVars == <<accounts, tokens, nextTok, jobs, areq, outbox, oplog>>

vars == <<now, posts, post_cats, subs, nextId, queue, submitted, committed,
          txn, cache, mail, req, ex, writer, writes, crashes,
          digestVars, acctVars>>

\* ----------------------------------------------------------------- helpers
RECURSIVE SetToSeq(_)
SetToSeq(S) ==
  IF S = {} THEN <<>>
  ELSE LET x == CHOOSE y \in S : TRUE IN <<x>> \o SetToSeq(S \ {x})

SeqToSet(s) == {s[i] : i \in 1..Len(s)}

Exists(p) == posts[p] # NoPost

\* Category.subscribers.all()
Subscribers(c) == {u \in Users : \E s \in subs : s.user = u /\ s.category = c}

\* timezone.make_aware(datetime.combine(timezone.now().date(), time.min)):
\* timezone.now() is in UTC, so .date() is the UTC date; make_aware puts
\* midnight of that date in the current time zone (UTC+3).
TodayStart(t) == (t \div HoursPerDay) * HoursPerDay - TZOffset

\* Author.get_news_count_today
GetNewsCountToday(a, t) ==
  Cardinality({p \in PostIds : /\ Exists(p)
                               /\ posts[p].author = a
                               /\ posts[p].post_type = NEWS
                               /\ posts[p].created_at >= TodayStart(t)})

\* Author.can_publish_news
CanPublishNews(a, t) == GetNewsCountToday(a, t) < NewsLimit

NewRow(a, t) ==
  [author |-> a, post_type |-> t, title |-> "t0", rating |-> 0,
   created_at |-> now, updated_at |-> now, notifications_sent |-> FALSE]

IdleReq == [pc |-> "idle"]
IdleEx == [pc |-> "idle"]
IdleWriter == [pc |-> "idle"]
IdleAct == [pc |-> "idle", status |-> "-"]
NoUser == [none |-> TRUE]
NoOp == [op |-> "-", user |-> "-", branch |-> "-", failed |-> FALSE, flip |-> FALSE]
IdleSub ==
  [pc |-> "idle", user |-> "-", category |-> "-", result |-> "-",
   retried |-> FALSE]
IdleDigest ==
  [pc |-> "idle", start |-> 0, week_ago |-> 0, todo |-> <<>>,
   sent_count |-> 0, error_count |-> 0, mailFailed |-> FALSE]

\* keys deleted by handle_post_save for a new post
PostSaveKeys(p) ==
  {<<"latest_news", 0>>, <<"news_list", 0>>, <<"post", p>>, <<"categories_list", 0>>}

\* Category primary keys, as they appear in the URLs
CategoryId(c) == IF c = "c1" THEN 1 ELSE 2

\* the keys under which cache_page stores the response to GET /news/ and to
\* GET /news/category/<id>/ (the prefix, the method and the hashed URL)
NewsListKey == <<"views.decorators.cache.cache_page.GET./news/", 0>>
CategoryPostsKey(c) ==
  <<"views.decorators.cache.cache_page.GET./news/category/", CategoryId(c)>>

\* cache.delete(key) for each key: the entries stored under other keys stay
CacheDelete(C, keys) == {e \in C : e.key \notin keys}

\* DATABASES is SQLite: a transaction that has written holds the database's
\* write lock until it ends, and the writes of every other connection wait
WriteLocked(r) == txn.open /\ txn.post # 0 /\ txn.owner # r

\* -------------------------------------------------------------------- Init
Init ==
  /\ now = StartTime
  /\ posts = [p \in PostIds |-> NoPost]
  /\ post_cats = [p \in PostIds |-> {}]
  /\ subs = {}
  /\ nextId = 1
  /\ queue = [p \in PostIds |-> 0]
  /\ submitted = [p \in PostIds |-> 0]
  /\ committed = {}
  /\ txn = NoTxn
  /\ cache = {}
  /\ mail = [k \in PostIds \X Categories \X Users |-> 0]
  /\ req = [r \in Requests |-> IdleReq]
  /\ ex = [e \in Execs |-> IdleEx]
  /\ writer = IdleWriter
  /\ writes = 0
  /\ crashes = 0
  /\ nextSubId = 1
  /\ subreq = [r \in Requests |-> IdleSub]
  /\ dg = [d \in Runners |-> IdleDigest]
  /\ digest_mail = [k \in Users \X Categories |-> 0]
  /\ accounts = [u \in Users |-> NoUser]
  /\ tokens = {}
  /\ nextTok = 1
  /\ jobs = <<>>
  /\ areq = [r \in Requests |-> IdleAct]
  /\ outbox = <<>>
  /\ oplog = NoOp

\* one more job for post p on the queue (send_immediate_notification_task.delay)
Delay(q, p) == [q EXCEPT ![p] = @ + 1]

\* (`after`, `read`, `log`, `mailFailed`, `wrote` and `result` record what the
\* execution did: they are read by the properties only)
\* the state of an execution that starts send_notifications_to_subscribers or
\* send_immediate_article_notification on the instance `row` of post p
StartEx(p, row) ==
  [pc |-> "run", post |-> p, copy |-> row, model |-> row.post_type = NEWS,
   sawSent |-> row.notifications_sent,
   after |-> crashes, read |-> {}, log |-> <<>>,
   mailFailed |-> FALSE, wrote |-> FALSE, result |-> "-"]

\* ------------------------------------------------- creating a post (views)
\* POST to NewsCreate: NewsLimitMixin.dispatch runs first and refuses with
\* PermissionDenied at the limit; otherwise ProcessFormView.post builds the
\* form, get_form_kwargs adds `user`, and PostForm(user=...) raises TypeError:
\* form_valid is not reached and nothing is stored.
NewsCreatePost(r, a) ==
  /\ req[r].pc = "idle"
  /\ LET n == GetNewsCountToday(a, now) IN
       req' = [req EXCEPT ![r] =
                 IF n >= NewsLimit
                 THEN [pc |-> "denied", author |-> a, reported |-> n]
                 ELSE [pc |-> "error", author |-> a]]
  /\ UNCHANGED <<now, posts, post_cats, subs, nextId, queue, submitted, committed,
                 txn, cache, mail, ex, writer, writes, crashes,
                 digestVars, acctVars>>

\* POST to ArticleCreate: no limit mixin
ArticleCreatePost(r, a) ==
  /\ req[r].pc = "idle"
  /\ req' = [req EXCEPT ![r] = [pc |-> "form", via |-> "view", author |-> a,
                                post_type |-> ARTICLE]]
  /\ UNCHANGED <<now, posts, post_cats, subs, nextId, queue, submitted, committed,
                 txn, cache, mail, ex, writer, writes, crashes,
                 digestVars, acctVars>>

\* the admin add view of PostAdmin: the whole view runs in one transaction
AdminAddPost(r, a, t) ==
  /\ req[r].pc = "idle"
  /\ txn = NoTxn
  /\ txn' = [open |-> TRUE, owner |-> r, post |-> 0]
  /\ req' = [req EXCEPT ![r] = [pc |-> "form", via |-> "admin", author |-> a,
                                post_type |-> t]]
  /\ UNCHANGED <<now, posts, post_cats, subs, nextId, queue, submitted, committed,
                 cache, mail, ex, writer, writes, crashes,
                 digestVars, acctVars>>

\* Post.save, first half: self.clean()
PostClean(r) ==
  /\ req[r].pc = "form"
  /\ LET a == req[r].author IN
       IF req[r].post_type = NEWS /\ ~CanPublishNews(a, now)
       THEN /\ req' = [req EXCEPT ![r] =
                         [pc |-> "rejected", author |-> a,
                          reported |-> GetNewsCountToday(a, now)]]
            /\ txn' = IF req[r].via = "admin" THEN NoTxn ELSE txn
       ELSE /\ req' = [req EXCEPT ![r].pc = "insert"]
            /\ txn' = txn
  /\ UNCHANGED <<now, posts, post_cats, subs, nextId, queue, submitted, committed,
                 cache, mail, ex, writer, writes, crashes,
                 digestVars, acctVars>>

\* Post.save, second half: super().save() inserts the row, then the post_save
\* receivers run: notify_subscribers_on_new_post submits a job at once,
\* handle_post_save finds no categories yet and deletes its cache keys.
PostInsert(r) ==
  /\ req[r].pc = "insert"
  /\ nextId <= MaxPosts
  /\ submitted[nextId] + 2 <= MaxJobs
  /\ ~WriteLocked(r)
  /\ LET p == nextId
         row == NewRow(req[r].author, req[r].post_type) IN
       /\ nextId' = nextId + 1
       /\ IF req[r].via = "view"
          THEN /\ posts' = [posts EXCEPT ![p] = row]
               /\ committed' = committed \cup {p}
               /\ txn' = txn
               /\ req' = [req EXCEPT ![r] = [pc |-> "m2m", via |-> "view", post |-> p]]
          ELSE /\ txn' = [open |-> TRUE, owner |-> r, post |-> p, row |-> row]
               /\ req' = [req EXCEPT ![r] = [pc |-> "intx", via |-> "admin", post |-> p]]
               /\ UNCHANGED <<posts, committed>>
       /\ queue' = Delay(queue, p)
       /\ submitted' = Delay(submitted, p)
       /\ cache' = CacheDelete(cache, PostSaveKeys(p))
  /\ UNCHANGED <<now, post_cats, subs, mail, ex, writer, writes, crashes,
                 digestVars, acctVars>>

\* ArticleCreate.form_valid, after the insert: form.save() attaches the
\* categories; handle_post_categories_changed registers
\* process_post_notifications with transaction.on_commit, which in autocommit
\* runs at once: it re-reads the post and submits a job.  The form.save_m2m()
\* that follows sets the same categories again and adds nothing.
SaveM2M(r, cs) ==
  /\ req[r].pc = "m2m"
  /\ cs # {}
  /\ ~WriteLocked(r)
  /\ LET p == req[r].post IN
       /\ post_cats' = [post_cats EXCEPT ![p] = cs]
       /\ IF Exists(p)
          THEN /\ queue' = Delay(queue, p)
               /\ submitted' = Delay(submitted, p)
          ELSE UNCHANGED <<queue, submitted>>
  /\ req' = [req EXCEPT ![r].pc = "caches"]
  /\ UNCHANGED <<now, posts, subs, nextId, committed, txn, cache, mail, ex,
                 writer, writes, crashes,
                 digestVars, acctVars>>

\* ArticleCreate.clear_related_caches: cache.delete_pattern is not an
\* operation of the configured FileBasedCache, so the call raises and evicts
\* nothing; the post and its categories are already stored.
ClearRelatedCaches(r) ==
  /\ req[r].pc = "caches"
  /\ req' = [req EXCEPT ![r] = IdleReq]
  /\ UNCHANGED <<now, posts, post_cats, subs, nextId, queue, submitted, committed,
                 txn, cache, mail, ex, writer, writes, crashes,
                 digestVars, acctVars>>

\* the admin add view returns: PostCategoryInline rows are saved as plain rows
\* (no m2m_changed), then the transaction commits
AdminCommit(r, cs) ==
  /\ req[r].pc = "intx"
  /\ LET p == req[r].post IN
       /\ posts' = [posts EXCEPT ![p] = txn.row]
       /\ post_cats' = [post_cats EXCEPT ![p] = cs]
       /\ committed' = committed \cup {p}
  /\ txn' = NoTxn
  /\ req' = [req EXCEPT ![r] = IdleReq]
  /\ UNCHANGED <<now, subs, nextId, queue, submitted, cache, mail, ex,
                 writer, writes, crashes,
                 digestVars, acctVars>>

\* the admin add view fails after save_model: the transaction rolls back, and
\* with it the row and the allocation of its primary key
AdminRollback(r) ==
  /\ req[r].pc = "intx"
  /\ nextId' = txn.post
  /\ txn' = NoTxn
  /\ req' = [req EXCEPT ![r] = IdleReq]
  /\ UNCHANGED <<now, posts, post_cats, subs, queue, submitted, committed,
                 cache, mail, ex, writer, writes, crashes,
                 digestVars, acctVars>>

\* the response of a refused creation has been returned
RequestRefused(r) ==
  /\ req[r].pc \in {"denied", "rejected", "error"}
  /\ req' = [req EXCEPT ![r] = IdleReq]
  /\ UNCHANGED <<now, posts, post_cats, subs, nextId, queue, submitted, committed,
                 txn, cache, mail, ex, writer, writes, crashes,
                 digestVars, acctVars>>

\* time passes
Tick ==
  /\ now + TZOffset <= MaxTime
  /\ now' = now + TZOffset
  /\ UNCHANGED <<posts, post_cats, subs, nextId, queue, submitted, committed,
                 txn, cache, mail, req, ex, writer, writes, crashes,
                 digestVars, acctVars>>

\* ------------------------------------------------------ dispatch executions
\* does the execution run Post.send_notifications_to_subscribers (the task for
\* a NEWS post, the admin action for any post) rather than
\* EmailService.send_immediate_article_notification (the task otherwise)
ModelMethod(e) == ex[e].model

\* a task that swallows DoesNotExist and reports success
NotFoundSwallowed(p) ==
  [StartEx(p, NewRow("-", "-")) EXCEPT !.pc = "done", !.result = "success"]

\* Post.objects.get(id=post_id) on a missing row raises DoesNotExist inside the
\* try block: the except clause logs it and re-raises, so the job ends failed
\* before any service method is called.
NotFound(p) ==
  [StartEx(p, NewRow("-", "-")) EXCEPT !.pc = "done", !.result = "failed"]

\* a store whose readers see the rows of a transaction that is still open
FetchedUncommitted(p) ==
  IF txn.open /\ txn.post = p THEN txn.row ELSE posts[p]

\* Post.objects.get(id=p) on the worker's connection: the committed row, or
\* NoPost (DoesNotExist) while the creating transaction is open
Fetched(p) == posts[p]

\* send_immediate_notification_task, first statement: Post.objects.get(id=post_id).
TaskStart(w, p) ==
  /\ ex[w].pc = "idle"
  /\ queue[p] > 0
  /\ queue' = [queue EXCEPT ![p] = @ - 1]
  /\ ex' = [ex EXCEPT ![w] =
              IF Fetched(p) # NoPost THEN StartEx(p, Fetched(p)) ELSE NotFound(p)]
  /\ UNCHANGED <<now, posts, post_cats, subs, nextId, submitted, committed, txn,
                 cache, mail, req, writer, writes, crashes,
                 digestVars, acctVars>>

\* a handler that skips every subscriber without an email address
CallsMailerWithAddress(e, u) == email[u] # ""

\* does this path call send_mail for subscriber u: the article service skips
\* a subscriber without an email address
CallsMailer(e, u) == ModelMethod(e) \/ email[u] # ""

\* the subscribers of category c for whom the inner loop calls send_mail, in
\* the order of the loop
Called(e, c) == SetToSeq({u \in Subscribers(c) : CallsMailer(e, u)})

\* the send_mail calls of the two nested loops over the categories cs, in order
RECURSIVE CallSeq(_, _)
CallSeq(e, cs) ==
  IF cs = <<>> THEN <<>>
  ELSE LET c == Head(cs)
           called == Called(e, c) IN
       [i \in 1..Len(called) |-> <<c, called[i]>>] \o CallSeq(e, Tail(cs))

\* a Mailer that drops a message it has already accepted for the same pair
AcceptOnce(m, p, pairs) ==
  [k \in DOMAIN m |-> IF k[1] = p /\ <<k[2], k[3]>> \in pairs THEN 1 ELSE m[k]]

\* the Mailer after send_mail returned for one message of post p for each
\* pair of `pairs`
Accept(m, p, pairs) ==
  [k \in DOMAIN m |-> IF k[1] = p /\ <<k[2], k[3]>> \in pairs THEN m[k] + 1 ELSE m[k]]

\* The body of the handler up to the flag.
\* Post.send_notifications_to_subscribers returns at once when the instance's
\* notifications_sent is set;
\* EmailService.send_immediate_article_notification does not look at it.
\* Then for each category attached to the post, for each subscriber of the
\* category, send_mail is called once; the Mailer fails for the pairs in
\* `failing`, and each failure is caught and printed inside the loop
\* (_send_single_notification and send_immediate_article_notification both).
\* After the loops the model method goes on to set the flag, the article
\* service returns.
ExLoop(e, failing) ==
  /\ ex[e].pc = "run"
  /\ LET p == ex[e].post
         cs == SetToSeq(post_cats[p])
         calls == CallSeq(e, cs)
         refused == SeqToSet(calls) \cap failing IN
       IF ModelMethod(e) /\ ex[e].copy.notifications_sent
       THEN /\ ex' = [ex EXCEPT ![e] = [@ EXCEPT !.pc = "done", !.result = "success"]]
            /\ mail' = mail
       ELSE /\ ex' = [ex EXCEPT ![e] =
                        [@ EXCEPT !.read = {<<c, u>> \in Categories \X Users :
                                              c \in post_cats[p] /\ u \in Subscribers(c)},
                                  !.log = calls,
                                  !.mailFailed = refused # {},
                                  !.pc = IF ModelMethod(e) THEN "mark" ELSE "done",
                                  !.result = IF ModelMethod(e) THEN "-" ELSE "success"]]
            /\ mail' = Accept(mail, p, SeqToSet(calls) \ refused)
  /\ UNCHANGED <<now, posts, post_cats, subs, nextId, queue, submitted, committed,
                 txn, cache, req, writer, writes, crashes,
                 digestVars, acctVars>>

\* the row written by Model.save() of an existing instance: every field of the
\* instance, with updated_at = now (auto_now)
SavedRow(copy) == [copy EXCEPT !.updated_at = now]

\* self.notifications_sent = True; self.save()
ExMarkSent(e) ==
  /\ ex[e].pc = "mark"
  /\ ~WriteLocked(e)
  /\ LET p == ex[e].post
         c == [ex[e].copy EXCEPT !.notifications_sent = TRUE] IN
       /\ posts' = [posts EXCEPT ![p] = SavedRow(c)]
       /\ ex' = [ex EXCEPT ![e] = [@ EXCEPT !.copy = c, !.wrote = TRUE,
                                            !.pc = "done", !.result = "success"]]
  /\ UNCHANGED <<now, post_cats, subs, nextId, queue, submitted, committed, txn,
                 cache, mail, req, writer, writes, crashes,
                 digestVars, acctVars>>

\* PostAdmin.send_notifications_action for the selected post p: a post
\* without categories is skipped with a warning, otherwise
\* send_notifications_to_subscribers runs in the request on the instance the
\* queryset fetched
SendNotificationsAction(r, p) ==
  /\ req[r].pc = "idle"
  /\ ex[r].pc = "idle"
  /\ Exists(p)
  /\ post_cats[p] # {}
  /\ req' = [req EXCEPT ![r] = [pc |-> "action", post |-> p]]
  /\ ex' = [ex EXCEPT ![r] = [StartEx(p, posts[p]) EXCEPT !.model = TRUE]]
  /\ UNCHANGED <<now, posts, post_cats, subs, nextId, queue, submitted, committed,
                 txn, cache, mail, writer, writes, crashes,
                 digestVars, acctVars>>

\* the execution has returned: a worker takes the next job, the admin action
\* reports and returns
ExFinish(e) ==
  /\ ex[e].pc = "done"
  /\ ex' = [ex EXCEPT ![e] = IdleEx]
  /\ req' = IF e \in Requests THEN [req EXCEPT ![e] = IdleReq] ELSE req
  /\ UNCHANGED <<now, posts, post_cats, subs, nextId, queue, submitted, committed,
                 txn, cache, mail, writer, writes, crashes,
                 digestVars, acctVars>>

\* a worker dies in the middle of a job.  Before the flag check it has sent
\* nothing; otherwise it dies in the loops after k send_mail calls, or after
\* the loops and before the flag is saved.  Nothing is written to the store.
\* The queue may deliver the job again.
WorkerCrash(w, k, redeliver) ==
  /\ ex[w].pc \in {"run", "mark"}
  /\ crashes < MaxCrashes
  /\ LET p == ex[w].post
         calls == CallSeq(w, SetToSeq(post_cats[p])) IN
       IF ex[w].pc = "run" /\ ~(ModelMethod(w) /\ ex[w].copy.notifications_sent)
       THEN /\ k <= Len(calls)
            /\ mail' = Accept(mail, p, {calls[i] : i \in 1..k})
            /\ ex' = [ex EXCEPT ![w] = [@ EXCEPT !.log = SubSeq(calls, 1, k),
                                                 !.pc = "crashed",
                                                 !.result = "crashed"]]
       ELSE /\ k = 0
            /\ mail' = mail
            /\ ex' = [ex EXCEPT ![w] = [@ EXCEPT !.pc = "crashed",
                                                 !.result = "crashed"]]
  /\ queue' = IF redeliver THEN Delay(queue, ex[w].post) ELSE queue
  /\ crashes' = crashes + 1
  /\ UNCHANGED <<now, posts, post_cats, subs, nextId, submitted, committed, txn,
                 cache, req, writer, writes,
                 digestVars, acctVars>>

\* the worker process is started again
WorkerRestart(w) ==
  /\ ex[w].pc = "crashed"
  /\ ex' = [ex EXCEPT ![w] = IdleEx]
  /\ UNCHANGED <<now, posts, post_cats, subs, nextId, queue, submitted, committed,
                 txn, cache, mail, req, writer, writes, crashes,
                 digestVars, acctVars>>

\* ------------------------------------------------- other writers of a post
\* UpdateView.get_object / an instance fetched for like() or dislike()
WriterLoad(p) ==
  /\ writer.pc = "idle"
  /\ Exists(p)
  /\ writes < MaxWrites
  /\ writer' = [pc |-> "loaded", post |-> p, copy |-> posts[p]]
  /\ UNCHANGED <<now, posts, post_cats, subs, nextId, queue, submitted, committed,
                 txn, cache, mail, req, ex, writes, crashes,
                 digestVars, acctVars>>

\* NewsUpdate / ArticleUpdate.form_valid: PostForm sets title, content, author
\* and categories; form.save() saves the instance and then the categories; a
\* category that was not attached fires m2m_changed(post_add), hence a job
EditSave(t, a, cs) ==
  /\ writer.pc = "loaded"
  /\ cs # {}
  /\ ~WriteLocked("editor")
  /\ LET p == writer.post
         c == [writer.copy EXCEPT !.title = t, !.author = a] IN
       /\ posts' = [posts EXCEPT ![p] = SavedRow(c)]
       /\ post_cats' = [post_cats EXCEPT ![p] = cs]
       /\ IF cs \ post_cats[p] # {}
          THEN /\ queue' = Delay(queue, p)
               /\ submitted' = Delay(submitted, p)
          ELSE UNCHANGED <<queue, submitted>>
  /\ writer' = IdleWriter
  /\ writes' = writes + 1
  /\ UNCHANGED <<now, subs, nextId, committed, txn, cache, mail, req, ex,
                 crashes,
                 digestVars, acctVars>>

\* Post.like / Post.dislike: self.rating += d; self.save()
RatingSave(d) ==
  /\ writer.pc = "loaded"
  /\ ~WriteLocked("editor")
  /\ LET p == writer.post
         c == [writer.copy EXCEPT !.rating = @ + d] IN
       posts' = [posts EXCEPT ![p] = SavedRow(c)]
  /\ writer' = IdleWriter
  /\ writes' = writes + 1
  /\ UNCHANGED <<now, post_cats, subs, nextId, queue, submitted, committed, txn,
                 cache, mail, req, ex, crashes,
                 digestVars, acctVars>>

\* PostAdmin.mark_as_sent_action: queryset.update(notifications_sent=True)
MarkAsSentAction(p) ==
  /\ Exists(p)
  /\ ~posts[p].notifications_sent
  /\ ~WriteLocked("admin")
  /\ posts' = [posts EXCEPT ![p].notifications_sent = TRUE]
  /\ UNCHANGED <<now, post_cats, subs, nextId, queue, submitted, committed, txn,
                 cache, mail, req, ex, writer, writes, crashes,
                 digestVars, acctVars>>

\* PostAdmin's delete view (and the delete_selected action): the Post row and,
\* by cascade, its PostCategory rows are removed; no post_delete receiver is
\* registered for Post and jobs already queued for the id stay on the queue.
DeletePost(p) ==
  /\ Exists(p)
  /\ ~WriteLocked("admin")
  /\ posts' = [posts EXCEPT ![p] = NoPost]
  /\ post_cats' = [post_cats EXCEPT ![p] = {}]
  /\ UNCHANGED <<now, subs, nextId, queue, submitted, committed, txn,
                 cache, mail, req, ex, writer, writes, crashes,
                 digestVars, acctVars>>

\* ------------------------------------------------------------ subscriptions
\* last_weekly_sent = NULL
Null == -1

\* the Subscription row of user u and category c, as a set (empty if none)
SubRows(u, c) == {s \in subs : s.user = u /\ s.category = c}

\* a store without the unique constraint on (user, category)
NoConstraint(u, c) == TRUE

\* Meta.unique_together = ['user', 'category']: an INSERT of a row for (u, c)
\* succeeds only if no row holds that pair
UniqueTogether(u, c) == SubRows(u, c) = {}

\* Subscription.objects.create(user=u, category=c): subscribed_at is
\* auto_now_add, last_weekly_sent is NULL
NewSub(u, c) ==
  [id |-> nextSubId, user |-> u, category |-> c,
   subscribed_at |-> now, last_weekly_sent |-> Null]

\* subscribe_to_category when no other request runs between the SELECT and the
\* INSERT of get_or_create
Subscribe(u, c) ==
  /\ ~WriteLocked(u)
  /\ IF SubRows(u, c) # {}
       THEN UNCHANGED <<subs, nextSubId>>
       ELSE /\ nextSubId <= MaxSubIds
            /\ subs' = subs \cup {NewSub(u, c)}
            /\ nextSubId' = nextSubId + 1
  /\ UNCHANGED <<now, posts, post_cats, nextId, queue, submitted, committed, txn,
                 cache, mail, req, ex, writer, writes, crashes,
                 subreq, dg, digest_mail, acctVars>>

\* unsubscribe_from_category: Subscription.objects.filter(...).delete()
Unsubscribe(u, c) ==
  /\ ~WriteLocked(u)
  /\ subs' = subs \ SubRows(u, c)
  /\ UNCHANGED <<now, posts, post_cats, nextId, queue, submitted, committed, txn,
                 cache, mail, req, ex, writer, writes, crashes,
                 digestVars, acctVars>>

\* subscribe_to_category, the SELECT of get_or_create: a row found is returned
\* (created = False); otherwise the request goes on to the INSERT
SubscribeGet(r, u, c) ==
  /\ subreq[r].pc = "idle"
  /\ subreq' = [subreq EXCEPT ![r] =
                  [pc |-> IF SubRows(u, c) # {} THEN "idle" ELSE "create",
                   user |-> u, category |-> c,
                   result |-> IF SubRows(u, c) # {} THEN "exists" ELSE "-",
                   retried |-> FALSE]]
  /\ UNCHANGED <<now, posts, post_cats, subs, nextId, queue, submitted,
                 committed, txn, cache, mail, req, ex, writer, writes, crashes,
                 nextSubId, dg, digest_mail, acctVars>>

\* the INSERT of get_or_create: the unique constraint makes it fail with
\* IntegrityError when another request has inserted the pair meanwhile
SubscribeCreate(r) ==
  /\ subreq[r].pc = "create"
  /\ ~WriteLocked(r)
  /\ LET u == subreq[r].user
         c == subreq[r].category
     IN IF UniqueTogether(u, c)
          THEN /\ nextSubId <= MaxSubIds
               /\ subs' = subs \cup {NewSub(u, c)}
               /\ nextSubId' = nextSubId + 1
               /\ subreq' = [subreq EXCEPT ![r].pc = "idle",
                                           ![r].result = "created"]
          ELSE /\ subreq' = [subreq EXCEPT ![r].pc = "retry"]
               /\ UNCHANGED <<subs, nextSubId>>
  /\ UNCHANGED <<now, posts, post_cats, nextId, queue, submitted, committed, txn,
                 cache, mail, req, ex, writer, writes, crashes,
                 dg, digest_mail, acctVars>>

\* get_or_create after IntegrityError: the SELECT is repeated; if the row has
\* gone again the IntegrityError is re-raised
SubscribeRetry(r) ==
  /\ subreq[r].pc = "retry"
  /\ subreq' = [subreq EXCEPT
                  ![r].pc = "idle",
                  ![r].retried = TRUE,
                  ![r].result =
                     IF SubRows(subreq[r].user, subreq[r].category) # {}
                       THEN "exists" ELSE "error"]
  /\ UNCHANGED <<now, posts, post_cats, subs, nextId, queue, submitted,
                 committed, txn, cache, mail, req, ex, writer, writes, crashes,
                 nextSubId, dg, digest_mail, acctVars>>

\* ------------------------------------------------------------ weekly digest
\* timedelta(days=7), in hours
Week == DaysPerWeek * HoursPerDay

\* a day passes
DayTick ==
  /\ now + HoursPerDay <= StartTime + MaxDays * HoursPerDay
  /\ now' = now + HoursPerDay
  /\ UNCHANGED <<posts, post_cats, subs, nextId, queue, submitted, committed,
                 txn, cache, mail, req, ex, writer, writes, crashes,
                 digestVars, acctVars>>

\* a cursor test that also takes a cursor exactly seven days old as due
NeedsWeeklyDigestInclusive(s, t) ==
  \/ s.last_weekly_sent = Null
  \/ t - s.last_weekly_sent >= Week

\* Subscription.needs_weekly_digest on the loaded instance s at time t
NeedsWeeklyDigest(s, t) ==
  \/ s.last_weekly_sent = Null
  \/ t - s.last_weekly_sent > Week

\* a query that takes posts of either type
NewPostsAnyType(c, week_ago) ==
  {p \in PostIds : /\ Exists(p)
                   /\ c \in post_cats[p]
                   /\ posts[p].created_at >= week_ago}

\* Post.objects.filter(categories=category, post_type=Post.ARTICLE,
\*                     created_at__gte=week_ago)
NewPosts(c, week_ago) ==
  {p \in PostIds : /\ Exists(p)
                   /\ c \in post_cats[p]
                   /\ posts[p].post_type = ARTICLE
                   /\ posts[p].created_at >= week_ago}

\* send_weekly_digest up to the start of the loop: week_ago is computed and the
\* queryset is evaluated, which loads every Subscription row
DigestStart(d) ==
  /\ dg[d].pc = "idle"
  /\ dg' = [dg EXCEPT ![d] =
              [pc |-> "run", start |-> now, week_ago |-> now - Week,
               todo |-> SetToSeq(subs), sent_count |-> 0, error_count |-> 0,
               mailFailed |-> FALSE]]
  /\ UNCHANGED <<now, posts, post_cats, subs, nextId, queue, submitted,
                 committed, txn, cache, mail, req, ex, writer, writes, crashes,
                 nextSubId, subreq, digest_mail, acctVars>>

\* a run that lets the exception of send_mail end the loop
Propagated(run) == [run EXCEPT !.todo = <<>>, !.mailFailed = TRUE]

\* except Exception: error_count += 1, and the loop goes on
Caught(run) == [run EXCEPT !.error_count = @ + 1, !.mailFailed = TRUE]

\* a run that stamps the cursor with the start of its window
StampedWeekAgo(s, week_ago) == [s EXCEPT !.last_weekly_sent = week_ago]

\* subscription.last_weekly_sent = timezone.now(); week_ago is the bound of the
\* query window, which the assignment does not use
Stamped(s, week_ago) == [s EXCEPT !.last_weekly_sent = now]

\* one iteration of the loop of send_weekly_digest, for the loaded instance at
\* the head of todo; `fails` says whether send_mail raises.  subscription.save()
\* is an UPDATE by primary key, an INSERT if no row has that key, and the INSERT
\* raises IntegrityError if another row holds the pair; every exception is
\* counted in error_count.
DigestStep(d, fails) ==
  /\ dg[d].pc = "run"
  /\ dg[d].todo # <<>>
  /\ ~WriteLocked(d)
  /\ LET s == Head(dg[d].todo)
         rest == [dg[d] EXCEPT !.todo = Tail(@), !.mailFailed = FALSE]
         sends == /\ NeedsWeeklyDigest(s, now)
                  /\ NewPosts(s.category, dg[d].week_ago) # {}
         stored == {r \in subs : r.id = s.id}
         pair == <<s.user, s.category>>
     IN IF ~sends
          THEN /\ ~fails
               /\ dg' = [dg EXCEPT ![d] = rest]
               /\ UNCHANGED <<subs, digest_mail>>
        ELSE IF fails
          THEN /\ dg' = [dg EXCEPT ![d] = Caught(rest)]
               /\ UNCHANGED <<subs, digest_mail>>
        ELSE /\ digest_mail' = [digest_mail EXCEPT ![pair] = @ + 1]
             /\ IF stored # {} \/ UniqueTogether(s.user, s.category)
                  THEN /\ subs' = (subs \ stored) \cup
                                    {Stamped(s, dg[d].week_ago)}
                       /\ dg' = [dg EXCEPT ![d] =
                                   [rest EXCEPT !.sent_count = @ + 1]]
                  ELSE /\ dg' = [dg EXCEPT ![d] =
                                   [rest EXCEPT !.error_count = @ + 1]]
                       /\ UNCHANGED subs
  /\ UNCHANGED <<now, posts, post_cats, nextId, queue, submitted, committed,
                 txn, cache, mail, req, ex, writer, writes, crashes,
                 nextSubId, subreq, acctVars>>

\* send_weekly_digest returns {'sent', 'errors', 'total'} and its locals are
\* gone
DigestFinish(d) ==
  /\ dg[d].pc = "run"
  /\ dg[d].todo = <<>>
  /\ dg' = [dg EXCEPT ![d] = IdleDigest]
  /\ UNCHANGED <<now, posts, post_cats, subs, nextId, queue, submitted,
                 committed, txn, cache, mail, req, ex, writer, writes, crashes,
                 nextSubId, subreq, digest_mail, acctVars>>

\* ------------------------------------------------- registration, activation
\* a token that counts as expired from exactly seven days on
IsExpiredInclusive(t, at) == at >= t.created_at + ExpirationDays * HoursPerDay

\* ActivationToken.is_expired at time `at`
IsExpired(t, at) == at > t.created_at + ExpirationDays * HoursPerDay

\* ActivationToken.is_valid at time `at`
IsValid(t, at) == ~t.activated /\ ~IsExpired(t, at)

\* f"{settings.SITE_URL}/accounts/activate/{activation_token.token}/"
ActivationUrl(tok) == <<"accounts", "activate", tok>>

\* path('accounts/activate/<str:token>/'): the token part of the URL
TokenOfUrl(url) == url[3]

\* a User row as the signup form saves it, before any receiver has run
NewUser ==
  [is_staff |-> FALSE, is_active |-> TRUE, groups |-> {}, authors |-> 0]

\* Author.objects.get_or_create(user=user) on the account record a
GetOrCreateAuthor(a) == IF a.authors = 0 THEN [a EXCEPT !.authors = 1] ELSE a

\* handle_user_post_save for created = True
HandleUserPostSave(a) ==
  IF ~a.is_staff /\ "common" \notin a.groups
    THEN GetOrCreateAuthor([a EXCEPT !.groups = @ \cup {"common"}])
    ELSE a

\* a receiver that creates the profile without looking for one
CreateAuthorProfileAlways(a) == [a EXCEPT !.authors = @ + 1]

\* create_author_profile for created = True: hasattr(instance, 'author')
CreateAuthorProfile(a) ==
  IF a.authors = 0 THEN [a EXCEPT !.authors = @ + 1] ELSE a

\* ActivationToken.create_token(user): a fresh random string
CreateToken(u) ==
  [id |-> nextTok, token |-> nextTok, user |-> u, created_at |-> now,
   activated |-> FALSE]

\* the signup view of allauth for a new user u: user.save() runs the two
\* post_save receivers of User in the order of their registration, then
\* user_signed_up runs handle_user_signed_up
SignUp(u) ==
  /\ accounts[u] = NoUser
  /\ nextTok <= MaxTokens
  /\ Len(jobs) < MaxAcctJobs
  /\ LET saved == CreateAuthorProfile(HandleUserPostSave(NewUser))
         signed == GetOrCreateAuthor([saved EXCEPT !.groups = @ \cup {"common"}])
         tok == CreateToken(u)
     IN /\ accounts' = [accounts EXCEPT ![u] = signed]
        /\ tokens' = tokens \cup {tok}
        /\ nextTok' = nextTok + 1
        /\ jobs' = Append(jobs, [task |-> "welcome", user |-> u,
                                 url |-> ActivationUrl(tok.token)])
  /\ UNCHANGED <<now, posts, post_cats, subs, nextId, queue, submitted,
                 committed, txn, cache, mail, req, ex, writer, writes, crashes,
                 digestVars, areq, outbox, oplog>>

\* a view that does not look at the age of the token
ActivationStatusNoExpiry(t, at) ==
  IF t.activated THEN "already_activated" ELSE "success"

\* ActivationView.get: the branch taken for the loaded token t at time `at`
ActivationStatus(t, at) ==
  IF IsExpired(t, at) THEN "expired"
  ELSE IF t.activated THEN "already_activated"
  ELSE "success"

\* handle_activation_token_save: the condition under which the job is
\* submitted and the user is added to the group 'authors'
TokenSaveSubmits(instance, created) == instance.activated /\ ~created

\* handle_activation_token_save after a save of `instance`:
\* send_activation_success_task.delay(instance.user.id)
JobsAfterTokenSave(instance, created) ==
  IF TokenSaveSubmits(instance, created)
    THEN Append(jobs, [task |-> "success", user |-> instance.user, url |-> <<>>])
    ELSE jobs

\* handle_activation_token_save after a save of `instance`: the user is added
\* to the group 'authors' if not in it
AccountsAfterTokenSave(instance, created) ==
  IF TokenSaveSubmits(instance, created)
    THEN [accounts EXCEPT ![instance.user].groups = @ \cup {"authors"}]
    ELSE accounts

\* ActivationView.get up to the branch: the token of the URL is loaded; an
\* unknown, expired or activated token ends the request with a message
ActivationGet(r, url) ==
  /\ areq[r].pc = "idle"
  /\ LET found == {t \in tokens : t.token = TokenOfUrl(url)}
     IN areq' = [areq EXCEPT ![r] =
          IF found = {} THEN [pc |-> "idle", status |-> "invalid"]
          ELSE LET t == CHOOSE x \in found : TRUE
               IN IF ActivationStatus(t, now) = "success"
                    THEN [pc |-> "save", status |-> "-", copy |-> t]
                    ELSE [pc |-> "idle", status |-> ActivationStatus(t, now),
                          copy |-> t]]
  /\ UNCHANGED <<now, posts, post_cats, subs, nextId, queue, submitted,
                 committed, txn, cache, mail, req, ex, writer, writes, crashes,
                 digestVars, accounts, tokens, nextTok, jobs, outbox, oplog>>

\* ActivationView.get, the success branch: activation_token.save() writes the
\* whole row (an UPDATE by primary key, an INSERT if the row is gone, which the
\* OneToOne constraint on user refuses with IntegrityError when the user has
\* another token) and runs handle_activation_token_save, then user.save()
\* writes is_active
ActivationSave(r) ==
  /\ areq[r].pc = "save"
  /\ Len(jobs) < MaxAcctJobs
  /\ LET saved == [areq[r].copy EXCEPT !.activated = TRUE]
         stored == {t \in tokens : t.id = saved.id}
         other == {t \in tokens : t.user = saved.user /\ t.id # saved.id}
     IN IF stored = {} /\ other # {}
          THEN /\ UNCHANGED <<tokens, jobs, accounts>>
               /\ areq' = [areq EXCEPT ![r] = [pc |-> "idle", status |-> "error",
                                               copy |-> areq[r].copy]]
          ELSE /\ tokens' = (tokens \ stored) \cup {saved}
               /\ jobs' = JobsAfterTokenSave(saved, stored = {})
               /\ accounts' = [AccountsAfterTokenSave(saved, stored = {})
                                 EXCEPT ![saved.user].is_active = TRUE]
               /\ areq' = [areq EXCEPT ![r] = [pc |-> "idle", status |-> "success",
                                               copy |-> areq[r].copy]]
  /\ UNCHANGED <<now, posts, post_cats, subs, nextId, queue, submitted,
                 committed, txn, cache, mail, req, ex, writer, writes, crashes,
                 digestVars, nextTok, outbox, oplog>>

\* handle_social_signup (social_account_added) for the existing user u:
\* get_or_create(user=user) loads the user's token, or creates one with an
\* empty token string; then activated = True is saved
SocialAccountAdded(u) ==
  /\ accounts[u] # NoUser
  /\ Len(jobs) < MaxAcctJobs
  /\ LET found == {t \in tokens : t.user = u}
         loaded == IF found # {} THEN CHOOSE x \in found : TRUE
                   ELSE [CreateToken(u) EXCEPT !.token = 0]
         saved == [loaded EXCEPT !.activated = TRUE]
     IN /\ found = {} => (nextTok <= MaxTokens /\ \A t \in tokens : t.token # 0)
        /\ tokens' = (tokens \ found) \cup {saved}
        /\ nextTok' = IF found = {} THEN nextTok + 1 ELSE nextTok
        /\ jobs' = JobsAfterTokenSave(saved, FALSE)
        /\ accounts' = AccountsAfterTokenSave(saved, FALSE)
  /\ UNCHANGED <<now, posts, post_cats, subs, nextId, queue, submitted,
                 committed, txn, cache, mail, req, ex, writer, writes, crashes,
                 digestVars, areq, outbox, oplog>>

\* a resend view that does not look at the age of the token
ResendBranchNoExpiry(t, at) == IF t.activated THEN "activated" ELSE "valid"

\* a resend view that looks at the age of the token first
ResendBranchExpiryFirst(t, at) ==
  IF IsExpired(t, at) THEN "expired"
  ELSE IF t.activated THEN "activated"
  ELSE "valid"

\* resend_activation_email: the branch taken for the user's token t at time
\* `at`
ResendBranch(t, at) ==
  IF t.activated THEN "activated"
  ELSE IF IsExpired(t, at) THEN "expired"
  ELSE "valid"

\* resend_activation_email for the logged-in user u; `fails` says whether
\* email.send() of send_welcome_email raises.  The expired branch deletes the
\* token and creates a new one before the mail is sent; a user without a token
\* gets a new one.
ResendActivationEmail(u, fails) ==
  /\ accounts[u] # NoUser
  /\ Len(outbox) < MaxOutbox
  /\ LET found == {t \in tokens : t.user = u}
         old == CHOOSE x \in found : TRUE
         branch == IF found = {} THEN "missing" ELSE ResendBranch(old, now)
         fresh == CreateToken(u)
         sent == IF branch = "valid" THEN old ELSE fresh
     IN /\ IF branch \in {"missing", "expired"}
             THEN /\ nextTok <= MaxTokens
                  /\ tokens' = (tokens \ found) \cup {fresh}
                  /\ nextTok' = nextTok + 1
             ELSE UNCHANGED <<tokens, nextTok>>
        /\ outbox' = IF branch = "activated" \/ fails THEN outbox
                     ELSE Append(outbox, [user |-> u,
                                          url |-> ActivationUrl(sent.token)])
        /\ branch = "activated" => ~fails
        /\ oplog' = [op |-> "resend", user |-> u, branch |-> branch,
                     failed |-> fails, flip |-> ~oplog.flip]
  /\ UNCHANGED <<now, posts, post_cats, subs, nextId, queue, submitted,
                 committed, txn, cache, mail, req, ex, writer, writes, crashes,
                 digestVars, accounts, jobs, areq>>

\* a sweep that deletes expired tokens whether activated or not
SweepableAnyStatus(t, at) ==
  t.created_at < at - ExpirationDays * HoursPerDay

\* cleanup_expired_tokens: filter(activated=False,
\*                                created_at__lt=timezone.now() - timedelta(days=7))
Sweepable(t, at) ==
  ~t.activated /\ t.created_at < at - ExpirationDays * HoursPerDay

\* cleanup_expired_tokens: the rows of the filter are deleted by one DELETE
CleanupExpiredTokens ==
  /\ tokens' = {t \in tokens : ~Sweepable(t, now)}
  /\ oplog' = [op |-> "cleanup", user |-> "-", branch |-> "-",
               failed |-> FALSE, flip |-> ~oplog.flip]
  /\ UNCHANGED <<now, posts, post_cats, subs, nextId, queue, submitted,
                 committed, txn, cache, mail, req, ex, writer, writes, crashes,
                 digestVars, accounts, nextTok, jobs, areq, outbox>>

\* ------------------------------------------------------------ cached pages
\* an entry outlives its timeout of 300 seconds only within the same hour
Fresh(e) == e.at = now

\* cache_page around a view: a fresh entry under the page's key is served
\* as it is; otherwise the view renders the page and the response is stored.
\* (`written`, the number of posts inserted so far, and `served` are read by
\* the properties only)
CachePage(key, content) ==
  IF \E e \in cache : e.key = key /\ Fresh(e)
  THEN {IF e.key = key THEN [e EXCEPT !.served = TRUE] ELSE e : e \in cache}
  ELSE CacheDelete(cache, {key}) \cup
         {[key |-> key, content |-> content, at |-> now,
           written |-> nextId - 1, served |-> FALSE]}

\* GET /news/ (NewsList): the NEWS posts
NewsListGet ==
  /\ cache' = CachePage(NewsListKey,
                        {p \in PostIds : Exists(p) /\ posts[p].post_type = NEWS})
  /\ UNCHANGED <<now, posts, post_cats, subs, nextId, queue, submitted,
                 committed, txn, mail, req, ex, writer, writes, crashes,
                 digestVars, acctVars>>

\* GET /news/category/<id>/ (category_posts): the posts of the category
CategoryPostsGet(c) ==
  /\ cache' = CachePage(CategoryPostsKey(c),
                        {p \in PostIds : Exists(p) /\ c \in post_cats[p]})
  /\ UNCHANGED <<now, posts, post_cats, subs, nextId, queue, submitted,
                 committed, txn, mail, req, ex, writer, writes, crashes,
                 digestVars, acctVars>>

\* Post.save, second half, when cache.delete raises in handle_post_save (the
\* cache directory cannot be written): post_save is sent with Signal.send, so
\* the exception leaves handle_post_save, the receivers registered after it
\* (notify_subscribers_on_new_post among them) are not called, and Post.save
\* raises.  ArticleCreate runs in autocommit: the row stays, form.save never
\* attaches the categories and the request ends with a server error.  The
\* admin add view is atomic: the insert is rolled back.
PostInsertEvictionFails(r) ==
  /\ req[r].pc = "insert"
  /\ nextId <= MaxPosts
  /\ ~WriteLocked(r)
  /\ IF req[r].via = "view"
     THEN /\ posts' = [posts EXCEPT ![nextId] =
                         NewRow(req[r].author, req[r].post_type)]
          /\ committed' = committed \cup {nextId}
          /\ nextId' = nextId + 1
          /\ txn' = txn
     ELSE /\ txn' = NoTxn
          /\ UNCHANGED <<posts, committed, nextId>>
  /\ req' = [req EXCEPT ![r] = [pc |-> "error", author |-> req[r].author,
                                via |-> req[r].via, post |-> nextId]]
  /\ UNCHANGED <<now, post_cats, subs, queue, submitted, cache, mail, ex,
                 writer, writes, crashes, digestVars, acctVars>>

\* ------------------------------------------------------------ specifications
MaxDispatchPosts == 1   \* posts created in the pipeline specifications
MaxCachePosts == 1      \* posts created in the cache specification

\* the part both pipeline specifications share: author a1 creates an article
\* through ArticleCreate (request r1) or a news item through the admin add
\* view (request r2), one request at a time
CreateOne ==
  \/ /\ nextId <= MaxDispatchPosts
     /\ req["r2"].pc = "idle"
     /\ ArticleCreatePost("r1", "a1")
  \/ /\ nextId <= MaxDispatchPosts
     /\ req["r1"].pc = "idle"
     /\ AdminAddPost("r2", "a1", NEWS)
  \/ \E r \in Requests : PostClean(r)
  \/ \E r \in Requests : PostInsert(r)
  \/ SaveM2M("r1", {"c1", "c2"})
  \/ ClearRelatedCaches("r1")
  \/ AdminCommit("r2", {"c1"})

\* the sends for which the Mailer fails during one execution: none, the one
\* to u1, or all
Failures == {{}, {<<"c1", "u1">>}, Categories \X Users}

\* Notification pipeline: two workers run the jobs of the post and the admin
\* runs the send action, a worker may crash, the Mailer may fail, users
\* subscribe.
Next ==
  \/ CreateOne
  \/ \E w \in Workers, p \in PostIds : TaskStart(w, p)
  \/ \E p \in PostIds : SendNotificationsAction("r2", p)
  \/ \E e \in Execs, f \in Failures : ExLoop(e, f)
  \/ \E e \in Execs : ExMarkSent(e)
  \/ \E e \in Execs : ExFinish(e)
  \/ \E w \in Workers, k \in 0..Cardinality(Categories \X Users), rd \in BOOLEAN :
       WorkerCrash(w, k, rd)
  \/ \E w \in Workers : WorkerRestart(w)
  \/ \E u \in Users : Subscribe(u, "c1")

Spec == Init /\ [][Next]_vars

\* The writers of a post: one worker runs the jobs while an editor, a like or
\* dislike, and the admin action write the post; u1 subscribes and
\* unsubscribes; the Mailer does not fail.
NextWriters ==
  \/ CreateOne
  \/ \E p \in PostIds : TaskStart("w1", p)
  \/ ExLoop("w1", {})
  \/ ExMarkSent("w1")
  \/ ExFinish("w1")
  \/ \E p \in PostIds : WriterLoad(p)
  \/ \E t \in Titles, cs \in {{"c1"}, {"c1", "c2"}} : EditSave(t, "a1", cs)
  \/ \E d \in {1, -1} : RatingSave(d)
  \/ \E p \in PostIds : MarkAsSentAction(p)
  \/ \E p \in PostIds : DeletePost(p)
  \/ Subscribe("u1", "c1")
  \/ Unsubscribe("u1", "c1")

SpecWriters == Init /\ [][NextWriters]_vars

\* Creation: the authors create news through the admin add view (request r2)
\* and try NewsCreate (request r1) while the clock advances and an editor
\* saves a post; no worker runs, the jobs stay on the queue.
NextCreate ==
  \/ \E a \in Authors : NewsCreatePost("r1", a)
  \/ \E a \in Authors : AdminAddPost("r2", a, NEWS)
  \/ PostClean("r2")
  \/ PostInsert("r2")
  \/ AdminCommit("r2", {"c1"})
  \/ AdminRollback("r2")
  \/ \E r \in Requests : RequestRefused(r)
  \/ \E p \in PostIds : WriterLoad(p)
  \/ \E a \in Authors : EditSave("t0", a, {"c1"})
  \/ Tick

SpecCreate == Init /\ [][NextCreate]_vars

\* News and its subscribers: author a1 creates a news item with categories
\* through the admin add view, a worker runs the jobs (the one submitted by
\* the insert can run before the view commits), the admin runs the send
\* action later, users subscribe and unsubscribe, the clock advances; the
\* Mailer does not fail.
NextNews ==
  \/ nextId <= MaxDispatchPosts /\ AdminAddPost("r2", "a1", NEWS)
  \/ PostClean("r2")
  \/ PostInsert("r2")
  \/ \E cs \in {{"c1"}, {"c1", "c2"}} : AdminCommit("r2", cs)
  \/ AdminRollback("r2")
  \/ \E p \in PostIds : TaskStart("w1", p)
  \/ \E p \in PostIds : SendNotificationsAction("r2", p)
  \/ \E e \in {"w1", "r2"} : ExLoop(e, {})
  \/ \E e \in {"w1", "r2"} : ExMarkSent(e)
  \/ \E e \in {"w1", "r2"} : ExFinish(e)
  \/ \E u \in Users : Subscribe(u, "c1")
  \/ Unsubscribe("u1", "c1")
  \/ Tick

SpecNews == Init /\ [][NextNews]_vars

\* The read cache: author a1 creates articles through ArticleCreate (request
\* r1) and news through the admin add view (request r2) while readers open
\* the news list and the category pages, an eviction may fail, and the clock
\* advances.
NextCache ==
  \/ nextId <= MaxCachePosts /\ ArticleCreatePost("r1", "a1")
  \/ nextId <= MaxCachePosts /\ AdminAddPost("r2", "a1", NEWS)
  \/ \E r \in Requests : PostClean(r)
  \/ \E r \in Requests : PostInsert(r)
  \/ \E r \in Requests : PostInsertEvictionFails(r)
  \/ \E cs \in {{"c1"}, {"c1", "c2"}} : SaveM2M("r1", cs)
  \/ ClearRelatedCaches("r1")
  \/ AdminCommit("r2", {"c1"})
  \/ \E r \in Requests : RequestRefused(r)
  \/ NewsListGet
  \/ \E c \in Categories : CategoryPostsGet(c)
  \/ Tick

SpecCache == Init /\ [][NextCache]_vars

\* ---------------------------------------------------------------- properties
\* the deployment-local calendar day (Europe/Moscow) of instant t
\* the weekly digest: an article in c1 or in c2 or a NEWS post in c1 is
\* created, users subscribe to c1 and unsubscribe, days pass, and the periodic
\* task and the management command run send_weekly_digest
MaxDigestPosts == 1

CreateForDigest ==
  \/ /\ nextId <= MaxDigestPosts
     /\ req["r2"].pc = "idle"
     /\ ArticleCreatePost("r1", "a1")
  \/ /\ nextId <= MaxDigestPosts
     /\ req["r1"].pc = "idle"
     /\ AdminAddPost("r2", "a1", NEWS)
  \/ \E r \in Requests : PostClean(r)
  \/ \E r \in Requests : PostInsert(r)
  \/ \E cs \in {{"c1"}, {"c2"}} : SaveM2M("r1", cs)
  \/ ClearRelatedCaches("r1")
  \/ AdminCommit("r2", {"c1"})

NextDigest ==
  \/ CreateForDigest
  \/ \E u \in Users : now = StartTime /\ Subscribe(u, "c1")
  \/ Unsubscribe("u1", "c1")
  \/ (\A r \in Requests : req[r].pc = "idle") /\ DayTick
  \/ DigestStart("beat")
  \/ \E fails \in BOOLEAN : DigestStep("beat", fails)
  \/ DigestFinish("beat")

SpecDigest == Init /\ [][NextDigest]_vars

\* subscriptions: two requests at a time subscribe u1 to c1, u1
\* unsubscribes, an article is attached to c1 or c2, days pass and the
\* management command runs send_weekly_digest
NextSubs ==
  \/ \E r \in Requests : SubscribeGet(r, "u1", "c1")
  \/ \E r \in Requests : SubscribeCreate(r)
  \/ \E r \in Requests : SubscribeRetry(r)
  \/ Unsubscribe("u1", "c1")
  \/ /\ nextId <= MaxDigestPosts
     /\ ArticleCreatePost("r1", "a1")
  \/ PostClean("r1")
  \/ PostInsert("r1")
  \/ \E cs \in {{"c1"}, {"c2"}} : SaveM2M("r1", cs)
  \/ ClearRelatedCaches("r1")
  \/ now < StartTime + HoursPerDay /\ DayTick
  \/ DigestStart("cmd")
  \/ DigestStep("cmd", FALSE)
  \/ DigestFinish("cmd")

SpecSubs == Init /\ [][NextSubs]_vars

\* overlapping digest runs: u1 subscribes to c1 on the first day, an article
\* is attached to c1, days pass, and the periodic task and the management
\* command run send_weekly_digest, possibly at the same time; the Mailer does
\* not fail
NextOverlap ==
  \/ /\ nextId <= MaxDigestPosts
     /\ ArticleCreatePost("r1", "a1")
  \/ PostClean("r1")
  \/ PostInsert("r1")
  \/ SaveM2M("r1", {"c1"})
  \/ ClearRelatedCaches("r1")
  \/ now = StartTime /\ Subscribe("u1", "c1")
  \/ req["r1"].pc = "idle" /\ DayTick
  \/ \E d \in Runners : DigestStart(d)
  \/ \E d \in Runners : DigestStep(d, FALSE)
  \/ \E d \in Runners : DigestFinish(d)

SpecOverlap == Init /\ [][NextOverlap]_vars

\* accounts: users sign up, open activation links (their own, or a link with
\* an unknown token) from two browsers, connect social accounts, and days pass
NextAccounts ==
  \/ \E u \in Users : SignUp(u)
  \/ \E r \in Requests, k \in 1..(MaxTokens + 1) :
       ActivationGet(r, ActivationUrl(k))
  \/ \E r \in Requests : ActivationSave(r)
  \/ \E u \in Users : SocialAccountAdded(u)
  \/ DayTick

SpecAccounts == Init /\ [][NextAccounts]_vars

\* tokens: u1 signs up, opens the activation link, connects a social account,
\* asks for the activation mail again, the sweep of expired tokens runs, and
\* days pass
NextTokens ==
  \/ SignUp("u1")
  \/ \E k \in 1..MaxTokens : ActivationGet("r1", ActivationUrl(k))
  \/ ActivationSave("r1")
  \/ SocialAccountAdded("u1")
  \/ \E fails \in BOOLEAN : ResendActivationEmail("u1", fails)
  \/ CleanupExpiredTokens
  \/ DayTick

SpecTokens == Init /\ [][NextTokens]_vars

LocalDay(t) == (t + TZOffset) \div HoursPerDay

Days == 0..LocalDay(MaxTime)

\* the stored NEWS posts of author a created on local day d
NewsOnDay(a, d) ==
  Cardinality({p \in PostIds : /\ Exists(p)
                               /\ posts[p].author = a
                               /\ posts[p].post_type = NEWS
                               /\ LocalDay(posts[p].created_at) = d})

\* C1: in every reachable state an author has at most 3 NEWS posts created on
\* any one calendar day, whatever the interleaving of the creation attempts.
C1_DailyNewsLimit ==
  \A a \in Authors, d \in Days : NewsOnDay(a, d) <= NewsLimit

\* C2: when the author has k >= 3 NEWS posts created today, the save of a new
\* NEWS post (Post.clean) is refused with a validation error that reports
\* exactly k, no post is created, no job is submitted and no key is evicted.
C2_RejectionReportsTodaysCount ==
  [][\A r \in Requests :
       LET k == NewsOnDay(req[r].author, LocalDay(now)) IN
       (/\ req[r].pc = "form"
        /\ req[r].post_type = NEWS
        /\ k >= NewsLimit
        /\ req'[r].pc # "form")
       => /\ req'[r].pc = "rejected"
          /\ req'[r].reported = k
          /\ posts' = posts
          /\ nextId' = nextId
          /\ queue' = queue
          /\ submitted' = submitted
          /\ cache' = cache]_vars

\* C3: a dispatch job for a post is on record as submitted only if the
\* transaction that created the post has committed.
C3_JobOnlyAfterCommit ==
  \A p \in PostIds : submitted[p] > 0 => p \in committed

\* C4: for a post of either type, a dispatch whose handler finds
\* notificationsSent already true sends nothing to the Mailer and leaves the
\* persisted state as it was.
C4_SentFlagStopsDispatch ==
  [][\A e \in Execs :
       (/\ ex[e].pc = "run"
        /\ ex[e].sawSent
        /\ Exists(ex[e].post)
        /\ posts[ex[e].post].notifications_sent
        /\ ex'[e].pc # "run")
       => /\ mail' = mail
          /\ posts' = posts
          /\ post_cats' = post_cats
          /\ subs' = subs]_vars

\* C5: for a post of either type, when a dispatch job of a worker ends in
\* success the post's notificationsSent is true in the store.
C5_SuccessSetsSentFlag ==
  [][\A w \in Workers :
       (/\ ex[w].pc \in {"run", "mark"}
        /\ ex'[w].pc = "done"
        /\ ex'[w].result = "success")
       => posts'[ex'[w].post].notifications_sent]_vars

\* C6: a dispatch that found notificationsSent false and ran to completion has
\* called the Mailer exactly once for every pair (category attached to the
\* post, user subscribed to it) it read, and the flag is then true.
C6_OneNotificationPerPairThenFlag ==
  \A e \in Execs :
    (ex[e].pc = "done" /\ ex[e].result = "success" /\ ~ex[e].sawSent)
    => /\ Len(ex[e].log) = Cardinality(ex[e].read)
       /\ SeqToSet(ex[e].log) = ex[e].read
       /\ posts[ex[e].post].notifications_sent

\* C7: notificationsSent of a post, once true, is true in every later state
\* in which the post exists, whatever the interleaving of dispatches with
\* edits, likes and dislikes.
C7_SentFlagNeverReset ==
  [][\A p \in PostIds :
       (Exists(p) /\ posts[p].notifications_sent /\ posts'[p] # NoPost)
       => posts'[p].notifications_sent]_vars

C10_MailerFailureFailsJob ==
  \A w \in Workers :
    (ex[w].pc = "done" /\ ex[w].mailFailed)
    => (ex[w].result = "failed" /\ ~ex[w].wrote)

\* C11: a dispatch job taken from the queue for a post id that has no row ends
\* at once as failed, has called the Mailer for nobody, and neither that step
\* nor the end of the job changes posts, categories, subscriptions, the cache
\* or the messages accepted by the Mailer.
C11_MissingPostFailsJob ==
  [][\A w \in Workers :
       /\ (ex[w].pc = "idle" /\ ex'[w].pc # "idle" /\ ~Exists(ex'[w].post))
          => /\ ex'[w].pc = "done"
             /\ ex'[w].result = "failed"
             /\ ex'[w].log = <<>>
             /\ ~ex'[w].wrote
             /\ <<posts, post_cats, subs, cache, mail>>' =
                  <<posts, post_cats, subs, cache, mail>>
       /\ (ex[w].pc = "done" /\ ex[w].result = "failed" /\ ex[w].log = <<>>
           /\ ex'[w] # ex[w])
          => /\ ex'[w].pc = "idle"
             /\ <<posts, post_cats, subs, cache, mail>>' =
                  <<posts, post_cats, subs, cache, mail>>]_vars

\* a job has ended as failed for a post that was committed and then deleted
C11_Witness ==
  \E w \in Workers :
    /\ ex[w].pc = "done"
    /\ ex[w].result = "failed"
    /\ ex[w].post \in committed
    /\ ~Exists(ex[w].post)

\* ------------------------------------------------------ the weekly digest
\* runner d makes one iteration of the loop of send_weekly_digest in this step
DigestIteration(d) ==
  /\ dg[d].pc = "run"
  /\ dg[d].todo # <<>>
  /\ dg'[d].pc = "run"
  /\ dg'[d].start = dg[d].start
  /\ dg'[d].todo = Tail(dg[d].todo)

\* an ARTICLE of category c created in the seven days before the run of d began
QualifyingArticle(d, c) ==
  \E p \in PostIds :
    /\ Exists(p)
    /\ posts[p].post_type = ARTICLE
    /\ c \in post_cats[p]
    /\ posts[p].created_at >= dg[d].start - DaysPerWeek * HoursPerDay

\* C12: when a digest run examines a subscription whose lastWeeklySent is not
\* null and at most 7 days old (exactly 7 days included), no digest is sent
\* and no cursor changes.
C12_FreshCursorIsSkipped ==
  [][\A d \in Runners :
       (/\ DigestIteration(d)
        /\ Head(dg[d].todo).last_weekly_sent # Null
        /\ now - Head(dg[d].todo).last_weekly_sent <= DaysPerWeek * HoursPerDay)
       => /\ digest_mail' = digest_mail
          /\ subs' = subs]_vars

\* a run has examined every subscription at the moment it began; one of them
\* has a cursor exactly 7 days old and a qualifying article in its category,
\* and it has been sent only the digest of 7 days ago
C12_Witness ==
  /\ dg["beat"].pc = "run"
  /\ dg["beat"].start = now
  /\ dg["beat"].todo = <<>>
  /\ \E s \in subs :
       /\ s.last_weekly_sent # Null
       /\ now - s.last_weekly_sent = DaysPerWeek * HoursPerDay
       /\ QualifyingArticle("beat", s.category)
       /\ digest_mail[<<s.user, s.category>>] = 1

\* C13: a step writes a subscription's lastWeeklySent or sends a digest only
\* if it is an iteration of a digest run for that subscription and an ARTICLE
\* of the subscription's category was created in the 7 days before the run;
\* so runs that find no such article leave the cursor and send nothing.
C13_CursorMovesOnlyWithArticle ==
  [][/\ \A r \in subs' :
          (r \notin subs /\ r.last_weekly_sent # Null)
          => \E d \in Runners : /\ DigestIteration(d)
                                /\ Head(dg[d].todo).id = r.id
                                /\ QualifyingArticle(d, r.category)
     /\ \A u \in Users, c \in Categories :
          digest_mail'[<<u, c>>] # digest_mail[<<u, c>>]
          => \E d \in Runners : /\ DigestIteration(d)
                                /\ Head(dg[d].todo).user = u
                                /\ Head(dg[d].todo).category = c
                                /\ QualifyingArticle(d, c)]_vars

\* a run started a day or more after a NEWS post was attached to c1 has
\* examined every subscription; u1's subscription to c1 is due, no digest has
\* been sent and the cursor is still null
C13_Witness ==
  /\ dg["beat"].pc = "run"
  /\ dg["beat"].todo = <<>>
  /\ \E p \in PostIds : /\ Exists(p)
                        /\ posts[p].post_type = NEWS
                        /\ "c1" \in post_cats[p]
                        /\ posts[p].created_at < dg["beat"].start
                        /\ posts[p].created_at >= dg["beat"].week_ago
  /\ \E s \in subs : /\ s.user = "u1"
                     /\ s.category = "c1"
                     /\ s.subscribed_at < dg["beat"].start
                     /\ s.last_weekly_sent = Null
  /\ \A k \in Users \X Categories : digest_mail[k] = 0

\* C14: when a digest run examines a subscription that is still in the store,
\* is due (cursor null or more than 7 days old) and has a qualifying ARTICLE
\* in its category, and the Mailer does not fail, exactly one digest is sent,
\* to the subscription's user, and lastWeeklySent becomes the time of the
\* dispatch, which is not earlier than the start of the run.
C14_DueSubscriptionGetsOneDigest ==
  [][\A d \in Runners :
       LET s == Head(dg[d].todo) IN
       (/\ DigestIteration(d)
        /\ \E r \in subs : r.id = s.id
        /\ \/ s.last_weekly_sent = Null
           \/ now - s.last_weekly_sent > DaysPerWeek * HoursPerDay
        /\ QualifyingArticle(d, s.category)
        /\ ~dg'[d].mailFailed)
       => /\ digest_mail' = [digest_mail EXCEPT ![<<s.user, s.category>>] = @ + 1]
          /\ \E r \in subs' : /\ r.id = s.id
                              /\ r.last_weekly_sent = now
                              /\ r.last_weekly_sent >= dg[d].start
          /\ dg'[d].sent_count = dg[d].sent_count + 1]_vars

\* a digest was sent a day or more after its run began, and the cursor of the
\* subscription holds the time of the dispatch
C14_Witness ==
  /\ dg["beat"].pc = "run"
  /\ dg["beat"].start < now
  /\ dg["beat"].sent_count = 1
  /\ \E s \in subs : /\ s.last_weekly_sent = now
                     /\ digest_mail[<<s.user, s.category>>] = 1

\* C15: when the Mailer fails for one subscription of a digest run, no cursor
\* changes (the subscription stays due), no digest is counted as sent, the
\* error count of the run grows by one, and the run goes on with the remaining
\* subscriptions.
C15_MailerFailureIsCounted ==
  [][\A d \in Runners :
       (/\ dg[d].pc = "run"
        /\ dg[d].todo # <<>>
        /\ dg'[d] # dg[d]
        /\ dg'[d].mailFailed)
       => /\ subs' = subs
          /\ digest_mail' = digest_mail
          /\ dg'[d].pc = "run"
          /\ dg'[d].todo = Tail(dg[d].todo)
          /\ dg'[d].error_count = dg[d].error_count + 1
          /\ dg'[d].sent_count = dg[d].sent_count]_vars

\* the Mailer failed for the first subscription of a run, whose cursor is
\* still null, and the run then sent the digest of the second subscription
C15_Witness ==
  /\ dg["beat"].pc = "run"
  /\ dg["beat"].todo = <<>>
  /\ dg["beat"].error_count = 1
  /\ dg["beat"].sent_count = 1
  /\ ~dg["beat"].mailFailed
  /\ \E s1 \in subs, s2 \in subs :
       /\ s1.last_weekly_sent = Null
       /\ digest_mail[<<s1.user, s1.category>>] = 0
       /\ s2.last_weekly_sent = now
       /\ digest_mail[<<s2.user, s2.category>>] = 1

\* ----------------------------------------------------------- subscriptions
\* C16: at every moment no two Subscription rows hold the same (user,
\* category); and a subscribe request made while the pair is subscribed ends
\* without an error, inserts nothing and leaves every row, with its
\* subscribedAt and lastWeeklySent, as it was.
C16_OneSubscriptionPerPair ==
  /\ [](\A s1 \in subs, s2 \in subs :
          (s1.user = s2.user /\ s1.category = s2.category) => s1 = s2)
  /\ [][\A r \in Requests :
          (/\ subreq[r].pc = "idle"
           /\ subreq'[r] # subreq[r]
           /\ SubRows(subreq'[r].user, subreq'[r].category) # {})
          => /\ subreq'[r].pc = "idle"
             /\ subreq'[r].result = "exists"
             /\ subs' = subs
             /\ nextSubId' = nextSubId]_vars

\* two requests raced to subscribe u1 to c1: one inserted the row, the other
\* hit the unique constraint and got the existing row; a day later a request
\* for the subscribed pair found the row, whose subscribedAt is the day before
C16_Witness ==
  /\ subreq["r1"].result = "created"
  /\ subreq["r1"].user = "u1"
  /\ subreq["r2"].result = "exists"
  /\ subreq["r2"].user = "u1"
  /\ subreq["r2"].retried
  /\ Cardinality(SubRows("u1", "c1")) = 1
  /\ \E s \in SubRows("u1", "c1") : s.subscribed_at < now

\* ------------------------------------------------- registration, activation
\* C17: for every token and the current time, is_expired holds exactly when
\* more than 7 days have passed since created_at (not at exactly 7 days), and
\* is_valid holds exactly when the token is neither activated nor expired.
C17_ExpiryAndValidity ==
  \A t \in tokens :
    /\ IsExpired(t, now) <=> (now - t.created_at > ExpirationDays * HoursPerDay)
    /\ IsValid(t, now) <=> (~t.activated /\ ~IsExpired(t, now))

\* a token that is exactly 7 days old and not activated is not expired and
\* is valid
C17_Witness ==
  \E t \in tokens :
    /\ now - t.created_at = ExpirationDays * HoursPerDay
    /\ ~t.activated
    /\ ~IsExpired(t, now)
    /\ IsValid(t, now)

\* C18: an activation request that finds its token activated or expired ends
\* at once and changes no token, no account and no job; a request goes on to
\* write activated = true only if it found the token not activated and not
\* expired; and activated, once true, is never false again, so it goes from
\* false to true at most once.
C18_ActivationOnlyForValidToken ==
  [][/\ \A r \in Requests :
          (/\ areq[r].pc = "idle"
           /\ areq'[r] # areq[r]
           /\ areq'[r].status # "invalid")
          => LET t == areq'[r].copy
                 stale == \/ t.activated
                          \/ now - t.created_at > ExpirationDays * HoursPerDay
             IN /\ t \in tokens
                /\ stale => /\ areq'[r].pc = "idle"
                            /\ areq'[r].status \in {"expired", "already_activated"}
                            /\ <<tokens, accounts, jobs>>' = <<tokens, accounts, jobs>>
                /\ areq'[r].pc = "save" => ~stale
     /\ \A r \in Requests :
          (areq[r].pc = "idle" /\ areq'[r] # areq[r] /\ areq'[r].status = "invalid")
          => <<tokens, accounts, jobs>>' = <<tokens, accounts, jobs>>
     /\ \A t \in tokens, t2 \in tokens' :
          (t.id = t2.id /\ t.activated) => t2.activated]_vars

\* one request found its token already activated, the other found a token
\* that is expired and was never activated; the latter is still not activated
C18_Witness ==
  \E r1 \in Requests, r2 \in Requests :
    /\ areq[r1].status = "already_activated"
    /\ areq[r1].copy.activated
    /\ areq[r2].status = "expired"
    /\ ~areq[r2].copy.activated
    /\ \E t \in tokens : t.id = areq[r2].copy.id /\ ~t.activated

\* C19: a step submits a SendActivationSuccessEmail job exactly when it turns
\* a token's activated from false to true; a save of a token that is already
\* activated submits none; and after the turn the token's user is in the
\* group 'authors'.
C19_SuccessJobExactlyOnFlip ==
  [][LET flipped == {t2 \in tokens' :
                       /\ t2.activated
                       /\ \A t \in tokens : t.id = t2.id => ~t.activated}
         submitted_now == /\ Len(jobs') = Len(jobs) + 1
                          /\ jobs'[Len(jobs')].task = "success"
     IN /\ submitted_now <=> flipped # {}
        /\ \A t2 \in flipped : "authors" \in accounts'[t2.user].groups]_vars

\* C20: the step that registers a user leaves the user in the group 'common'
\* (and not in 'authors'), with exactly one Author profile and exactly one
\* ActivationToken, which is not activated, and submits exactly one job, a
\* SendWelcomeEmail for that user whose URL carries that token.
C20_RegistrationOutcome ==
  [][\A u \in Users :
       (accounts[u] = NoUser /\ accounts'[u] # NoUser)
       => /\ accounts'[u].groups = {"common"}
          /\ accounts'[u].authors = 1
          /\ Cardinality({t \in tokens' : t.user = u}) = 1
          /\ \A t \in tokens' : t.user = u => ~t.activated
          /\ Len(jobs') = Len(jobs) + 1
          /\ SubSeq(jobs', 1, Len(jobs)) = jobs
          /\ jobs'[Len(jobs')].task = "welcome"
          /\ jobs'[Len(jobs')].user = u
          /\ \E t \in tokens' : /\ t.user = u
                                /\ jobs'[Len(jobs')].url = <<"accounts", "activate", t.token>>
          /\ Cardinality({i \in 1..Len(jobs') : /\ jobs'[i].task = "welcome"
                                                 /\ jobs'[i].user = u}) = 1]_vars

\* u1 has registered: one profile, the group 'common', one token that is not
\* activated, and the welcome job with the token's URL is the only job
C20_Witness ==
  /\ accounts["u1"] # NoUser
  /\ accounts["u1"].authors = 1
  /\ accounts["u1"].groups = {"common"}
  /\ \E t \in tokens : /\ t.user = "u1"
                       /\ ~t.activated
                       /\ jobs = <<[task |-> "welcome", user |-> "u1",
                                    url |-> <<"accounts", "activate", t.token>>]>>

\* ------------------------------------------------------- resend and sweep
\* the tokens of user u in the set of rows T
\* ActivationToken.objects.get(user=u), as a set (empty if none)
TokensOf(T, u) == {t \in T : t.user = u}

\* C21: a resend request of a user whose token is activated sends nothing and
\* changes nothing; if the token is not activated and expired, it is deleted
\* and a new token, not activated and created now, is in the store whether or
\* not the mail goes out, and the mail sent carries the new token; if the
\* token is valid, it stays as it is and the mail carries it.  After the
\* request the user has at most one token.
C21_ResendByTokenState ==
  [][(oplog' # oplog /\ oplog'.op = "resend")
     => LET u == oplog'.user
            pre == TokensOf(tokens, u)
            post == TokensOf(tokens', u)
            ttl == ExpirationDays * HoursPerDay
        IN /\ Cardinality(post) <= 1
           /\ <<accounts, jobs>>' = <<accounts, jobs>>
           /\ \A t \in pre :
                /\ t.activated
                   => /\ tokens' = tokens
                      /\ outbox' = outbox
                /\ (~t.activated /\ now - t.created_at > ttl)
                   => /\ \A n \in tokens' : n.id # t.id
                      /\ \E n \in post :
                           /\ ~n.activated
                           /\ n.created_at = now
                           /\ n.token # t.token
                           /\ IF oplog'.failed
                                THEN outbox' = outbox
                                ELSE outbox' = Append(outbox,
                                       [user |-> u,
                                        url |-> <<"accounts", "activate", n.token>>])
                /\ (~t.activated /\ now - t.created_at <= ttl)
                   => /\ tokens' = tokens
                      /\ IF oplog'.failed
                           THEN outbox' = outbox
                           ELSE outbox' = Append(outbox,
                                  [user |-> u,
                                   url |-> <<"accounts", "activate", t.token>>])]_vars

\* u1's first token expired without being activated; a resend request has
\* replaced it, and the mail it sent carries the token now in the store
C21_Witness ==
  /\ oplog.op = "resend"
  /\ oplog.branch = "expired"
  /\ ~oplog.failed
  /\ Len(outbox) = 1
  /\ \E t \in tokens : /\ t.user = "u1"
                       /\ t.id = 2
                       /\ ~t.activated
                       /\ t.created_at = now
                       /\ outbox[1].url = <<"accounts", "activate", t.token>>

\* ------------------------------------------------------ rate-limit window
\* midnight, in hours UTC, at which the local calendar day containing t began
StartOfLocalDay(t) == LocalDay(t) * HoursPerDay - TZOffset

\* C22: at every instant the count used by the limiter for an author is the
\* number of the author's NEWS posts created since local midnight of the
\* local calendar day that contains now, also when the local date and the UTC
\* date of now differ.
C22_WindowStartsAtLocalMidnight ==
  \A a \in Authors :
    GetNewsCountToday(a, now) =
      Cardinality({p \in PostIds : /\ Exists(p)
                                   /\ posts[p].author = a
                                   /\ posts[p].post_type = NEWS
                                   /\ posts[p].created_at >= StartOfLocalDay(now)})

\* ---------------------------------------------------------- cached pages
\* the creation of post p has completed: its transaction committed, its
\* categories are attached and no request is still evicting for it
CreationComplete(p) ==
  /\ p \in committed
  /\ Exists(p)
  /\ post_cats[p] # {}
  /\ \A r \in Requests : req[r].pc \in {"m2m", "caches", "intx"} => req[r].post # p

\* the cached pages on which post p appears: its detail view, the listing
\* page, and the page of each of its categories
PagesOf(p) ==
  {<<"post_detail", p>>, NewsListKey} \cup {CategoryPostsKey(c) : c \in post_cats[p]}

\* C23: after the creation of a post has completed, the read cache holds no
\* fresh entry for the post's detail view, the listing page or the page of a
\* category of the post that was written before the post was inserted.
C23_NoEntryFromBeforeCreation ==
  \A p \in PostIds :
    CreationComplete(p) =>
      \A e \in cache : (e.key \in PagesOf(p) /\ Fresh(e)) => e.written >= p

\* C24: when an eviction fails during the creation of a post, in
\* handle_post_save or in clear_related_caches, the post is still stored
\* (or still held by its open transaction), a dispatch job for it has been
\* submitted, and the step evicts nothing more.
C24_FailedEvictionKeepsPostAndJob ==
  [][\A r \in Requests :
       /\ (req[r].pc = "insert" /\ req'[r].pc = "error")
          => LET p == req'[r].post IN
               /\ posts'[p] # NoPost \/ (txn'.open /\ txn'.post = p)
               /\ submitted'[p] > 0
               /\ cache' = cache
       /\ (req[r].pc = "caches" /\ req'[r].pc = "idle")
          => LET p == req[r].post IN
               /\ posts'[p] # NoPost
               /\ submitted'[p] > 0
               /\ cache' = cache]_vars

\* ------------------------------------------------ news and its subscribers
\* the subscriptions to category c that were made before post p was created
\* and have been in place since
SubscribedSinceBefore(p, c) ==
  {s \in subs : s.category = c /\ s.subscribed_at < posts[p].created_at}

C26_WeeklyRunsSendEveryRun ==
  [][\A d \in Runners :
       LET s == Head(dg[d].todo) IN
       (/\ DigestIteration(d)
        /\ \E r \in subs : r.id = s.id
        /\ s.last_weekly_sent # Null
        /\ s.last_weekly_sent = dg[d].start - DaysPerWeek * HoursPerDay
        /\ QualifyingArticle(d, s.category)
        /\ ~dg'[d].mailFailed)
       => digest_mail' = [digest_mail EXCEPT ![<<s.user, s.category>>] = @ + 1]]_vars

\* C27: a digest is sent for a subscription record only when the record's
\* stored cursor, the time of the last digest sent for it, is null or more
\* than 7 days old: two digests of one record are more than 7 days apart,
\* also when executions of the run overlap.
C27_DigestsMoreThanAWeekApart ==
  [][\A d \in Runners :
       LET s == Head(dg[d].todo) IN
       (/\ DigestIteration(d)
        /\ digest_mail'[<<s.user, s.category>>] > digest_mail[<<s.user, s.category>>])
       => \A r \in subs :
            r.id = s.id
            => \/ r.last_weekly_sent = Null
               \/ now - r.last_weekly_sent > DaysPerWeek * HoursPerDay]_vars

\* ------------------------------------------------- the write of the flag
\* C28: the step in which a dispatch sets notificationsSent of a stored post
\* changes no other field of the post: title, author and rating written by an
\* edit or a like since the dispatch fetched the post stay, and updatedAt
\* stays.
C28_FlagWriteChangesNothingElse ==
  [][\A e \in Execs :
       (/\ ex[e].pc = "mark"
        /\ ex'[e].pc = "done"
        /\ Exists(ex[e].post))
       => posts'[ex[e].post] =
            [posts[ex[e].post] EXCEPT !.notifications_sent = TRUE]]_vars

\* ------------------------------------------------------- the token sweep
\* C29: a run of cleanup_expired_tokens removes exactly the tokens that are
\* not activated and were created more than 7 days before now (expired and
\* not activated); every activated token and every token not older than 7
\* days stays, unchanged, and no token is added.
C29_SweepDeletesExpiredUnactivated ==
  [][(oplog' # oplog /\ oplog'.op = "cleanup")
     => /\ tokens' \subseteq tokens
        /\ \A t \in tokens :
             /\ (~t.activated /\ now - t.created_at > ExpirationDays * HoursPerDay)
                => t \notin tokens'
             /\ (~t.activated /\ IsExpired(t, now)) => t \notin tokens'
             /\ t.activated => t \in tokens'
             /\ now - t.created_at <= ExpirationDays * HoursPerDay
                => t \in tokens'
        /\ <<accounts, jobs, outbox>>' = <<accounts, jobs, outbox>>]_vars

\* u1 registered and never activated; more than 7 days later the sweep has
\* run and u1 has no token any more
C29_Witness ==
  /\ oplog.op = "cleanup"
  /\ accounts["u1"] # NoUser
  /\ TokensOf(tokens, "u1") = {}
  /\ nextTok = 2
  /\ now > StartTime + ExpirationDays * HoursPerDay

\* C30: an activated token stays in the store as it is, whatever request
\* comes next (an activation request, a resend request, a sweep, a social
\* login), also when it is older than 7 days: it is not deleted, not
\* replaced and not set back to activated = false.
C30_ActivatedTokenStays ==
  [][\A t \in tokens : t.activated => t \in tokens']_vars

\* u1's token was activated; more than 7 days after it was created the
\* sweep has run, and the token is still in the store, activated
C30_Witness ==
  /\ oplog.op = "cleanup"
  /\ \E t \in tokens : /\ t.user = "u1"
                       /\ t.activated
                       /\ now - t.created_at > ExpirationDays * HoursPerDay
  /\ Cardinality(tokens) = 1

====
